---- MODULE Spec2Model ----
(***************************************************************************)
(* AQNet: the Data_handling notebook (feature engineering) and the        *)
(* Model_Pipeline notebook (dataset builder, model, training, save and     *)
(* evaluation), as a state machine whose actions are the notebooks' code   *)
(* cells, run top to bottom.                                               *)
(*                                                                         *)
(* Spec runs Data_handling and the dataset builder on tables laid out as   *)
(* the shipped CSV is; SpecAnyOrder runs the same cells on tables whose    *)
(* stations come in any order; SpecModel runs Model_Pipeline alone on an   *)
(* enriched file, FairSpecModel with the epoch loop run to its end.        *)
(*                                                                         *)
(* Numbers.  A pollutant reading is a non-negative fixed-point number: the *)
(* integer v stands for v * 10^-RawDecimals.  round(4) is then rounding to *)
(* a multiple of Quantum.  A missing value (NaN, NaT) is the marker NaN.   *)
(* Exact intermediate results (an interpolated value, a window mean, a     *)
(* min-max scaled value) are fractions <<p, q>> with q > 0.                *)
(* A date string "DD-MM-YYYY" is the integer DDMMYYYY; a parsed date is    *)
(* its proleptic Gregorian ordinal (01-01-2017 is day 736330).             *)
(***************************************************************************)
EXTENDS Integers, Sequences, FiniteSets, TLC

VARIABLES
    all_stations_daily_data,  \* the input CSV file (read only)
    raw_data,                 \* Data_handling: the DataFrame raw_data
    Enhanced_csv,             \* the enriched CSV file written by Step 9
    data,                     \* Model_Pipeline: the DataFrame data
    X, y,                     \* Model_Pipeline: scaled features / target
    X_train, X_test, y_train, y_test,
    scaler_X, scaler_y,       \* the fitted MinMaxScalers
    model,                    \* Model_Pipeline: the compiled Keras model
    history,                  \* model.fit: epochs and updates done, last val_loss
    models_dir,               \* the file system at MODEL_DIR
    saves,                    \* how many times the Save cell has run
    y_pred_train, y_pred_test, \* Model_Pipeline: shapes of the predictions
    pc                        \* the last cell that has run

vars == <<all_stations_daily_data, raw_data, Enhanced_csv, data, X, y,
          X_train, X_test, y_train, y_test, scaler_X, scaler_y,
          model, history, models_dir, saves, y_pred_train, y_pred_test, pc>>

----------------------------------------------------------------------------
(* Bounds of the model *)

MaxRows == 4          \* rows of an exhaustively enumerated input table
MaxLongRows == 10     \* rows of a patterned (long) input table
NumStations == 3      \* station ids 1..NumStations
RawDecimals == 5      \* decimals a raw reading carries
MaxSaves == 2         \* runs of the Save cell
BatchRows == 22       \* rows of the table whose training rows exceed one batch

(* Program constants *)
Decimals == 4         \* .round(4)
window == 7           \* rolling(window=7, ...)
min_periods == 1      \* rolling(..., min_periods=1)

NaN == -1             \* the missing-value marker (readings are >= 0)

Quantum == 10 ^ (RawDecimals - Decimals)

----------------------------------------------------------------------------
(* Generic helpers *)

Min(S) == CHOOSE m \in S : \A n \in S : m <= n
Max(S) == CHOOSE m \in S : \A n \in S : m >= n

RECURSIVE SumSeq(_)
SumSeq(s) == IF s = <<>> THEN 0 ELSE Head(s) + SumSeq(Tail(s))

RECURSIVE Flatten(_)
Flatten(ss) == IF ss = <<>> THEN <<>> ELSE Head(ss) \o Flatten(Tail(ss))

RECURSIVE SortedSeq(_)
SortedSeq(S) == IF S = {} THEN <<>> ELSE <<Min(S)>> \o SortedSeq(S \ {Min(S)})

Idx(n) == [i \in 1..n |-> i]

isna(v) == v = NaN

(* numpy's round: to the nearest integer, ties to the even one; p/q >= 0.   *)
(* The value is exact here: the binary representation error of a float     *)
(* that sits on a tie is not modelled.                                      *)
RoundHalfEven(p, q) ==
    LET fl == p \div q
        r2 == 2 * (p % q)
    IN  IF r2 < q THEN fl
        ELSE IF r2 > q THEN fl + 1
        ELSE IF fl % 2 = 0 THEN fl ELSE fl + 1

(* Series.round(4) of the exact value fr = <<p, q>>; NaN stays NaN *)
round(fr) ==
    IF isna(fr[1]) THEN NaN ELSE Quantum * RoundHalfEven(fr[1], fr[2] * Quantum)

----------------------------------------------------------------------------
(* Dates: pd.to_datetime(..., dayfirst=True, errors='coerce') and the .dt   *)
(* accessors.  A parsed date is its proleptic Gregorian ordinal             *)
(* (01-01-0001 is day 1).                                                   *)

IsLeap(yr) == (yr % 4 = 0 /\ yr % 100 # 0) \/ yr % 400 = 0

MonthLen(yr, m) ==
    IF m = 2 THEN (IF IsLeap(yr) THEN 29 ELSE 28)
    ELSE IF m \in {4, 6, 9, 11} THEN 30 ELSE 31

RECURSIVE DaysBeforeMonth(_, _)
DaysBeforeMonth(yr, m) ==
    IF m <= 1 THEN 0 ELSE MonthLen(yr, m - 1) + DaysBeforeMonth(yr, m - 1)

DaysBeforeYear(yr) ==
    365 * (yr - 1) + (yr - 1) \div 4 - (yr - 1) \div 100 + (yr - 1) \div 400

(* A date string is the integer DDMMYYYY *)
DateString(d, m, yr) == d * 1000000 + m * 10000 + yr

(* errors='coerce': a string that is no day-first date becomes NaT *)
to_datetime(s) ==
    LET d  == s \div 1000000
        m  == (s \div 10000) % 100
        yr == s % 10000
    IN  IF isna(s) \/ s < 0 THEN NaN
        ELSE IF yr < 1 \/ m < 1 \/ m > 12 \/ d < 1 THEN NaN
        ELSE IF d > MonthLen(yr, m) THEN NaN
        ELSE DaysBeforeYear(yr) + DaysBeforeMonth(yr, m) + d

dt_year(t) ==
    IF isna(t) THEN NaN
    ELSE CHOOSE yr \in (t \div 366)..(t \div 365 + 1) :
            yr >= 1 /\ DaysBeforeYear(yr) < t /\ t <= DaysBeforeYear(yr + 1)

dt_month(t) ==
    IF isna(t) THEN NaN
    ELSE LET yr == dt_year(t)
             n  == t - DaysBeforeYear(yr)
         IN  CHOOSE m \in 1..12 :
                DaysBeforeMonth(yr, m) < n /\ n <= DaysBeforeMonth(yr, m + 1)

dt_day(t) ==
    IF isna(t) THEN NaN
    ELSE t - DaysBeforeYear(dt_year(t)) - DaysBeforeMonth(dt_year(t), dt_month(t))

(* Monday = 0 ... Sunday = 6 *)
dt_dayofweek(t) == IF isna(t) THEN NaN ELSE (t + 6) % 7

----------------------------------------------------------------------------
(* DataFrames: a function from column names to equally long sequences *)

core_features ==
    <<"PM2.5 (ug/m3)", "PM10 (ug/m3)", "NOx (ppb)", "CO (mg/m3)", "Ozone (ug/m3)">>

CoreSet == {core_features[i] : i \in DOMAIN core_features}

rolling_mean_col(feature) == feature \o "_rolling_mean"
lag_1_col(feature) == feature \o "_lag_1"

(* the DataFrame whose column c is col[c]; built column by column, each     *)
(* column computed once                                                     *)
DataFrame(col) ==
    LET build[S \in SUBSET DOMAIN col] ==
            IF S = {} THEN <<>>
            ELSE LET c == CHOOSE d \in S : TRUE
                 IN  (c :> col[c]) @@ build[S \ {c}]
    IN  build[DOMAIN col]

(* the column whose i-th cell is cell[i], as a sequence *)
Series(cell) == cell \o <<>>

NoFrame == <<>>                       \* a DataFrame variable not yet assigned

nrows(df) == IF DOMAIN df = {} THEN 0 ELSE Len(df["Station_ID"])

(* The columns that hold readings (floats); the others hold integers/dates *)
IntegerColumns == {"Station_ID", "Timestamp", "Year", "Month", "Day", "DayOfWeek"}

(* groupby('Station_ID'): the group keys in sorted order, and the row        *)
(* positions of one group in table order                                     *)
group_keys(df) ==
    SortedSeq({df["Station_ID"][i] : i \in 1..nrows(df)})

group_rows(df, s) ==
    SelectSeq(Idx(nrows(df)), LAMBDA i : df["Station_ID"][i] = s)

(* position of row i inside its own group, 1-based *)
pos_in_group(df, i) ==
    Cardinality({j \in 1..i : df["Station_ID"][j] = df["Station_ID"][i]})

----------------------------------------------------------------------------
(* Data_handling, Step 2 and Step 3: dates and calendar features *)

with_columns(df, new) ==
    DataFrame([c \in DOMAIN df \cup DOMAIN new |->
                  IF c \in DOMAIN new THEN new[c] ELSE df[c]])

Step2_frame(df) ==
    with_columns(df,
        "Timestamp" :> Series([i \in 1..nrows(df) |-> to_datetime(df["Timestamp"][i])]))

Step3_frame(df) ==
    LET ts == df["Timestamp"]
        n  == nrows(df)
    IN  with_columns(df,
            DataFrame([c \in {"Year", "Month", "Day", "DayOfWeek"} |->
                Series([i \in 1..n |->
                    IF c = "Year" THEN dt_year(ts[i])
                    ELSE IF c = "Month" THEN dt_month(ts[i])
                    ELSE IF c = "Day" THEN dt_day(ts[i])
                    ELSE dt_dayofweek(ts[i])])]))

----------------------------------------------------------------------------
(* Data_handling, Step 5: grouped linear interpolation *)

(* what limit_direction='forward' would give: a leading gap stays missing *)
interpolate_forward(x) ==
    [i \in 1..Len(x) |->
        IF ~isna(x[i]) THEN <<x[i], 1>>
        ELSE LET L == {j \in 1..(i - 1) : ~isna(x[j])}
                 R == {j \in (i + 1)..Len(x) : ~isna(x[j])}
             IN  IF L = {} THEN <<NaN, 1>>
                 ELSE IF R = {} THEN <<x[Max(L)], 1>>
                 ELSE <<x[Max(L)] * (Min(R) - i) + x[Min(R)] * (i - Max(L)),
                        Min(R) - Max(L)>>] \o <<>>

(* what method='pad' with a backward fill of the leading gap would give:   *)
(* an interior gap takes the last known value                               *)
interpolate_pad(x) ==
    [i \in 1..Len(x) |->
        IF ~isna(x[i]) THEN <<x[i], 1>>
        ELSE LET L == {j \in 1..(i - 1) : ~isna(x[j])}
                 R == {j \in (i + 1)..Len(x) : ~isna(x[j])}
             IN  IF L = {} /\ R = {} THEN <<NaN, 1>>
                 ELSE IF L = {} THEN <<x[Min(R)], 1>>
                 ELSE <<x[Max(L)], 1>>] \o <<>>

(* Series.interpolate(method='linear', limit_direction='both') of one group: *)
(* positions are equally spaced; an interior gap is filled on the line       *)
(* between its two known neighbours, a leading gap with the first known      *)
(* value, a trailing gap with the last one; a series with no known value     *)
(* stays missing.  The result is exact (a fraction).                         *)
interpolate(x) ==
    [i \in 1..Len(x) |->
        IF ~isna(x[i]) THEN <<x[i], 1>>
        ELSE LET L == {j \in 1..(i - 1) : ~isna(x[j])}
                 R == {j \in (i + 1)..Len(x) : ~isna(x[j])}
             IN  IF L = {} /\ R = {} THEN <<NaN, 1>>
                 ELSE IF L = {} THEN <<x[Min(R)], 1>>
                 ELSE IF R = {} THEN <<x[Max(L)], 1>>
                 ELSE <<x[Max(L)] * (Min(R) - i) + x[Min(R)] * (i - Max(L)),
                        Min(R) - Max(L)>>] \o <<>>

(* one group's values of a column, in table order *)
group_series(df, col, s) ==
    LET rows == group_rows(df, s) IN Series([k \in 1..Len(rows) |-> df[col][rows[k]]])

(* groupby('Station_ID')[feature].apply(...): the groups' results, one after *)
(* the other in the order of the sorted group keys                           *)
interpolated_data(df, feature) ==
    LET keys == group_keys(df)
    IN  Flatten([g \in 1..Len(keys) |-> interpolate(group_series(df, feature, keys[g]))])

(* raw_data[feature] = interpolated_data.values, then .round(4): the values  *)
(* are assigned by position, whatever row each was computed for              *)
Step5_column(df, feature) ==
    LET v == interpolated_data(df, feature)
    IN  Series([i \in 1..nrows(df) |-> round(v[i])])

Step5_frame(df) ==
    DataFrame([c \in DOMAIN df |-> IF c \in CoreSet THEN Step5_column(df, c) ELSE df[c]])

----------------------------------------------------------------------------
(* Data_handling, Step 6: rolling mean and lag per station *)

(* what rolling(window=7, min_periods=1, center=True) would give: the       *)
(* window reaches three positions ahead of k                                *)
rolling_mean_centered(x, k) ==
    LET w    == SubSeq(x, Max({1, k - window \div 2}), Min({Len(x), k + window \div 2}))
        vals == SelectSeq(w, LAMBDA v : ~isna(v))
    IN  IF Len(vals) < min_periods THEN <<NaN, 1>>
        ELSE <<SumSeq(vals), Len(vals)>>

(* what a fixed divisor would give: the sum is divided by the window width  *)
(* even when fewer values are available                                     *)
rolling_mean_padded(x, k) ==
    LET w    == SubSeq(x, Max({1, k - window + 1}), k)
        vals == SelectSeq(w, LAMBDA v : ~isna(v))
    IN  IF Len(vals) < min_periods THEN <<NaN, 1>>
        ELSE <<SumSeq(vals), window>>

(* x.rolling(window=7, min_periods=1).mean() at position k of a group x:     *)
(* the mean of the known values among the last `window` positions up to k,   *)
(* missing when fewer than min_periods of them are known                     *)
rolling_mean(x, k) ==
    LET w    == SubSeq(x, Max({1, k - window + 1}), k)
        vals == SelectSeq(w, LAMBDA v : ~isna(v))
    IN  IF Len(vals) < min_periods THEN <<NaN, 1>>
        ELSE <<SumSeq(vals), Len(vals)>>

(* groupby("Station_ID")[feature].transform(...).round(4): aligned on the    *)
(* row index                                                                 *)
Step6_rolling_column(df, feature) ==
    Series([i \in 1..nrows(df) |->
        round(rolling_mean(group_series(df, feature, df["Station_ID"][i]),
                           pos_in_group(df, i)))])

(* x.shift(1) at position k of a group *)
shift(x, k) == IF k = 1 THEN NaN ELSE x[k - 1]

(* what raw_data[feature].shift(1), without the groupby, would give *)
Step6_lag_column_ungrouped(df, feature) ==
    Series([i \in 1..nrows(df) |-> round(<<shift(df[feature], i), 1>>)])

(* groupby("Station_ID")[feature].shift(1).round(4) *)
Step6_lag_column(df, feature) ==
    Series([i \in 1..nrows(df) |->
        round(<<shift(group_series(df, feature, df["Station_ID"][i]),
                      pos_in_group(df, i)), 1>>)])

present_features(df) == {f \in CoreSet : f \in DOMAIN df}

Step6_frame(df) ==
    LET fs == present_features(df)
    IN  with_columns(df,
            DataFrame([c \in {rolling_mean_col(f) : f \in fs}
                                \cup {lag_1_col(f) : f \in fs} |->
                    LET f == CHOOSE g \in fs : c \in {rolling_mean_col(g), lag_1_col(g)}
                    IN  IF c = rolling_mean_col(f) THEN Step6_rolling_column(df, f)
                        ELSE Step6_lag_column(df, f)]))

----------------------------------------------------------------------------
(* Data_handling, Step 7 and Step 8: fills *)

(* Series.fillna(method='bfill'): the next known value of the column *)
bfill(col) ==
    Series([i \in 1..Len(col) |->
        LET R == {j \in i..Len(col) : ~isna(col[j])}
        IN  IF R = {} THEN NaN ELSE col[Min(R)]])

(* fillna(method='ffill'): the last known value of the column *)
ffill(col) ==
    Series([i \in 1..Len(col) |->
        LET L == {j \in 1..i : ~isna(col[j])}
        IN  IF L = {} THEN NaN ELSE col[Max(L)]])

round_column(c, col) ==
    IF c \in IntegerColumns THEN col
    ELSE Series([i \in 1..Len(col) |-> round(<<col[i], 1>>)])

Step7_frame(df) ==
    LET fs      == present_features(df)
        derived == {rolling_mean_col(f) : f \in fs} \cup {lag_1_col(f) : f \in fs}
    IN  DataFrame([c \in DOMAIN df |->
                      IF c \in derived THEN round_column(c, bfill(df[c])) ELSE df[c]])

Step8_frame(df) == DataFrame([c \in DOMAIN df |-> round_column(c, ffill(df[c]))])

(* Step 9: reset_index(drop=True).round(4), then to_csv *)
Step9_frame(df) == DataFrame([c \in DOMAIN df |-> round_column(c, df[c])])

----------------------------------------------------------------------------
(* Input tables.  One row per (station, day); the rows of a station are     *)
(* consecutive days from 01-01-2017 and the stations follow one another in  *)
(* ascending Station_ID, as in all_stations_daily_data.csv.                 *)

Stations == 1..NumStations

Readings == {NaN, 15, 40}            \* raw cells of an enumerated column

(* the Station_ID column of a table of n rows: the stations one after the   *)
(* other in ascending order, numbered from 1 without a hole                 *)
Layouts(n) ==
    {st \in [1..n -> Stations] :
        /\ st[1] = 1
        /\ \A i \in 1..(n - 1) : st[i + 1] \in {st[i], st[i] + 1}}

Dates(st) ==
    [i \in 1..Len(st) |->
        DateString(Cardinality({j \in 1..i : st[j] = st[i]}), 1, 2017)]

(* the other columns are fully known and fixed by the row number *)
Filler(c, i) ==
    IF c = "PM10 (ug/m3)" THEN 2000 + 13 * i
    ELSE IF c = "NOx (ppb)" THEN 300 + 7 * i * i
    ELSE IF c = "CO (mg/m3)" THEN 74 + i
    ELSE IF c = "Ozone (ug/m3)" THEN 5650 - 11 * i
    ELSE 500 + 3 * i

Ramp(i) == (160 + 10 * i) * 10 ^ RawDecimals      \* 170.0, 180.0, ...
Odd(i) == 1000 + 37 * i * i + 3 * i

Table(st, pm25, cols, nh3_missing) ==
    [c \in {"Station_ID", "Timestamp", "PM2.5 (ug/m3)", "NH3 (ug/m3)"} \cup cols |->
        IF c = "Station_ID" THEN st
        ELSE IF c = "Timestamp" THEN Dates(st)
        ELSE IF c = "PM2.5 (ug/m3)" THEN pm25
        ELSE [i \in 1..Len(st) |->
                IF c = "NH3 (ug/m3)" /\ nh3_missing /\ i = 1 THEN NaN ELSE Filler(c, i)]]

OtherCore == CoreSet \ {"PM2.5 (ug/m3)"}

(* every PM2.5 column over Readings, for every layout of up to MaxRows rows *)
SmallTables ==
    UNION {{Table(st, pm25, OtherCore, FALSE) :
                st \in Layouts(n), pm25 \in [1..n -> Readings]} :
           n \in 1..MaxRows}

(* longer tables: one station or two (split in halves or two rows before    *)
(* the end), a ramp or an uneven series with at most one missing reading    *)
LongTables ==
    UNION {{Table([i \in 1..n |-> IF i <= k THEN 1 ELSE 2],
                  [i \in 1..n |-> IF i = g THEN NaN
                                  ELSE IF ramp THEN Ramp(i) ELSE Odd(i)],
                  OtherCore, FALSE) :
                k \in {n \div 2, n - 2, n}, g \in 0..n, ramp \in BOOLEAN} :
           n \in (MaxRows + 1)..MaxLongRows}

(* one station, fully known PM2.5; the Ozone column may be absent and the   *)
(* first NH3 cell (a column outside the core features) may be missing       *)
PartialTables ==
    {Table([i \in 1..n |-> 1], [i \in 1..n |-> Odd(i)],
           IF ozone THEN OtherCore ELSE OtherCore \ {"Ozone (ug/m3)"}, m) :
        n \in 1..MaxLongRows, ozone \in BOOLEAN, m \in BOOLEAN}

(* a date string that is no date, 31-02-2017, in row b of a table of fully  *)
(* known readings                                                           *)
BadDate == DateString(31, 2, 2017)

BadDateTables ==
    UNION {{[Table(st, [i \in 1..n |-> Odd(i)], OtherCore, FALSE)
                EXCEPT !["Timestamp"][b] = BadDate] :
                st \in Layouts(n), b \in 1..n} :
           n \in 1..MaxRows}

InputTables == SmallTables \cup LongTables \cup PartialTables \cup BadDateTables

----------------------------------------------------------------------------
(* The state machine *)

(* the file system at MODEL_DIR: nothing there, a directory holding files,  *)
(* or a regular file of that name                                           *)
MODEL_FILE == "base_model.keras"

Absent == [kind |-> "absent", files |-> {}]

Directory(fs) == [kind |-> "dir", files |-> fs]

DirStates ==
    {Absent, Directory({}), Directory({MODEL_FILE}), Directory({"other"}),
     [kind |-> "file", files |-> {}]}

(* no cell of Model_Pipeline has run *)
ModelPipelineFresh ==
    /\ data = NoFrame
    /\ X = <<>> /\ y = <<>>
    /\ X_train = <<>> /\ X_test = <<>> /\ y_train = <<>> /\ y_test = <<>>
    /\ scaler_X = <<>> /\ scaler_y = <<>>
    /\ model = <<>> /\ history = <<>>
    /\ saves = 0
    /\ y_pred_train = <<>> /\ y_pred_test = <<>>

Init ==
    /\ all_stations_daily_data \in InputTables
    /\ raw_data = NoFrame
    /\ Enhanced_csv = NoFrame
    /\ ModelPipelineFresh
    /\ models_dir = Absent
    /\ pc = "start"

ModelPipelineVars ==
    <<data, X, y, X_train, X_test, y_train, y_test, scaler_X, scaler_y>>

TrainingVars == <<model, history, models_dir, saves, y_pred_train, y_pred_test>>

(* Step 1: raw_data = pd.read_csv(file_path) *)
Step1 ==
    /\ pc = "start"
    /\ raw_data' = all_stations_daily_data
    /\ pc' = "Step1"
    /\ UNCHANGED <<all_stations_daily_data, Enhanced_csv, ModelPipelineVars,
                   TrainingVars>>

(* Step 2: convert 'Timestamp' to datetime *)
Step2 ==
    /\ pc = "Step1"
    /\ raw_data' = Step2_frame(raw_data)
    /\ pc' = "Step2"
    /\ UNCHANGED <<all_stations_daily_data, Enhanced_csv, ModelPipelineVars,
                   TrainingVars>>

(* Step 3: add time-based features *)
Step3 ==
    /\ pc = "Step2"
    /\ raw_data' = Step3_frame(raw_data)
    /\ pc' = "Step3"
    /\ UNCHANGED <<all_stations_daily_data, Enhanced_csv, ModelPipelineVars,
                   TrainingVars>>

(* Step 4: define core_features *)
Step4 ==
    /\ pc = "Step3"
    /\ pc' = "Step4"
    /\ UNCHANGED <<all_stations_daily_data, raw_data, Enhanced_csv, ModelPipelineVars,
                   TrainingVars>>

(* Step 5: interpolate missing values with explicit rounding *)
Step5 ==
    /\ pc = "Step4"
    /\ raw_data' = Step5_frame(raw_data)
    /\ pc' = "Step5"
    /\ UNCHANGED <<all_stations_daily_data, Enhanced_csv, ModelPipelineVars,
                   TrainingVars>>

(* Step 6: rolling averages and lag features; the closing print selects the *)
(* rolling_mean column of every core feature and raises KeyError when one   *)
(* is absent (the columns of the present ones are already added)            *)
Step6 ==
    /\ pc = "Step5"
    /\ raw_data' = Step6_frame(raw_data)
    /\ pc' = IF CoreSet \subseteq DOMAIN raw_data THEN "Step6" ELSE "Step6_KeyError"
    /\ UNCHANGED <<all_stations_daily_data, Enhanced_csv, ModelPipelineVars,
                   TrainingVars>>

(* Step 7: backward-fill the derived columns *)
Step7 ==
    /\ pc = "Step6"
    /\ raw_data' = Step7_frame(raw_data)
    /\ pc' = "Step7"
    /\ UNCHANGED <<all_stations_daily_data, Enhanced_csv, ModelPipelineVars,
                   TrainingVars>>

(* Step 8: forward-fill the whole table *)
Step8 ==
    /\ pc = "Step7"
    /\ raw_data' = Step8_frame(raw_data)
    /\ pc' = "Step8"
    /\ UNCHANGED <<all_stations_daily_data, Enhanced_csv, ModelPipelineVars,
                   TrainingVars>>

(* Step 9: save the enhanced dataset *)
Step9 ==
    /\ pc = "Step8"
    /\ Enhanced_csv' = Step9_frame(raw_data)
    /\ pc' = "Step9"
    /\ UNCHANGED <<all_stations_daily_data, raw_data, ModelPipelineVars, TrainingVars>>

----------------------------------------------------------------------------
(* Model_Pipeline: the dataset builder *)

features ==
    <<"PM10 (ug/m3)", "NOx (ppb)", "CO (mg/m3)", "Ozone (ug/m3)",
      "PM2.5 (ug/m3)_rolling_mean", "PM2.5 (ug/m3)_lag_1",
      "PM10 (ug/m3)_rolling_mean", "PM10 (ug/m3)_lag_1",
      "NOx (ppb)_rolling_mean", "NOx (ppb)_lag_1",
      "CO (mg/m3)_rolling_mean", "CO (mg/m3)_lag_1",
      "Ozone (ug/m3)_rolling_mean", "Ozone (ug/m3)_lag_1">>

target == "PM2.5 (ug/m3)"

RECURSIVE GCD(_, _)
GCD(a, b) == IF b = 0 THEN a ELSE GCD(b, a % b)

Frac(p, q) == IF p = 0 THEN <<0, 1>> ELSE <<p \div GCD(p, q), q \div GCD(p, q)>>

(* MinMaxScaler.fit: per column the smallest and largest known value        *)
(* (NaN is disregarded; a column with no known value has none)              *)
fit(col) ==
    LET known == {col[i] : i \in 1..Len(col)} \ {NaN}
    IN  IF known = {} THEN [data_min |-> NaN, data_max |-> NaN]
        ELSE [data_min |-> Min(known), data_max |-> Max(known)]

(* MinMaxScaler.transform of one value: x * scale_ + min_ with               *)
(* scale_ = 1 / (data_max - data_min), a zero range being replaced by 1;     *)
(* NaN is maintained                                                         *)
transform(sc, v) ==
    IF isna(v) \/ isna(sc.data_min) THEN <<NaN, 1>>
    ELSE IF sc.data_max = sc.data_min THEN Frac(v - sc.data_min, 1)
    ELSE Frac(v - sc.data_min, sc.data_max - sc.data_min)

(* sklearn's _validate_shuffle_split for test_size=0.2, train_size=None:     *)
(* n_test = ceil(0.2 * n_samples), n_train = n_samples - n_test              *)
test_size_num == 2                      \* test_size = 0.2 = 2 / 10
test_size_den == 10

n_test(n_samples) == (test_size_num * n_samples + test_size_den - 1) \div test_size_den

n_train(n_samples) == n_samples - n_test(n_samples)

(* inverse_transform without the offset min_ *)
inverse_transform_no_offset(sc, fr) ==
    IF isna(fr[1]) \/ isna(sc.data_min) THEN <<NaN, 1>>
    ELSE LET r == IF sc.data_max = sc.data_min THEN 1 ELSE sc.data_max - sc.data_min
             g == GCD(r, fr[2])
         IN  <<fr[1] * (r \div g), fr[2] \div g>>

(* MinMaxScaler.inverse_transform of one scaled value fr = <<p, q>>:        *)
(* (x - min_) / scale_ with min_ = -data_min * scale_, that is              *)
(* x * (data_max - data_min) + data_min, as a fraction                      *)
inverse_transform(sc, fr) ==
    IF isna(fr[1]) \/ isna(sc.data_min) THEN <<NaN, 1>>
    ELSE LET r == IF sc.data_max = sc.data_min THEN 1 ELSE sc.data_max - sc.data_min
             g == GCD(r, fr[2])
         IN  <<fr[1] * (r \div g) + sc.data_min * (fr[2] \div g), fr[2] \div g>>

(* what a strided selection would give: every fifth row left out *)
train_indices_interleaved(n_samples) ==
    SelectSeq(Idx(n_samples), LAMBDA i : i % 5 # 0)

(* shuffle=False: train = arange(n_train), test = arange(n_train,           *)
(* n_train + n_test), here as 1-based row numbers                           *)
train_indices(n_samples) == Idx(n_train(n_samples))

test_indices(n_samples) ==
    [k \in 1..n_test(n_samples) |-> n_train(n_samples) + k]

take(arr, indices) == [k \in 1..Len(indices) |-> arr[indices[k]]]

(* what fitting after the split would give: the training rows only *)
fit_transform_rows_train(n_samples) == train_indices(n_samples)

(* fit_transform(data[features]): the rows the scaler is fit on, all of them *)
fit_transform_rows(n_samples) == Idx(n_samples)

(* X.reshape(X.shape[0], 1, X.shape[1]): one timestep per sample *)
reshape(X2) == [i \in 1..Len(X2) |-> <<X2[i]>>]

(* data = pd.read_csv(INPUT_FILE) *)
Load ==
    /\ pc \in {"Step9", "Imports"}
    /\ data' = Enhanced_csv
    /\ pc' = "Load"
    /\ UNCHANGED <<all_stations_daily_data, raw_data, Enhanced_csv, X, y,
                   X_train, X_test, y_train, y_test, scaler_X, scaler_y, TrainingVars>>

(* the outcome of indexing by a label that is not a column *)
KeyError == <<>>

(* what reindexing by the label would give: an absent column comes out as  *)
(* a column of NaN                                                          *)
getitem_reindex(df, c) ==
    IF c \in DOMAIN df THEN df[c] ELSE [i \in 1..nrows(df) |-> NaN]

(* data[c]: the column, or KeyError *)
getitem(df, c) == IF c \in DOMAIN df THEN df[c] ELSE KeyError

(* Feature selection, min-max scaling, reshape to (samples, 1, features) and *)
(* the unshuffled 80/20 split.  data[features] raises KeyError when a        *)
(* feature column is absent; data[target] raises KeyError when the target    *)
(* is absent, after X has been scaled; train_test_split raises ValueError    *)
(* when the training set would be empty.                                     *)
Select ==
    /\ pc = "Load"
    /\ LET n     == nrows(data)
           Xcols == [j \in DOMAIN features |-> getitem(data, features[j])]
           ycol  == getitem(data, target)
       IN  IF \E j \in DOMAIN features : Xcols[j] = KeyError
           THEN /\ pc' = "KeyError"
                /\ UNCHANGED <<X, y, X_train, X_test, y_train, y_test,
                               scaler_X, scaler_y>>
           ELSE LET sX == [j \in DOMAIN features |->
                              fit(take(Xcols[j], fit_transform_rows(n)))]
                    X2 == [i \in 1..n |->
                              [j \in DOMAIN features |-> transform(sX[j], Xcols[j][i])]]
                IN  /\ scaler_X' = sX
                    /\ IF ycol = KeyError
                       THEN /\ X' = X2
                            /\ pc' = "KeyError"
                            /\ UNCHANGED <<y, X_train, X_test, y_train, y_test, scaler_y>>
                       ELSE LET sy == fit(take(ycol, fit_transform_rows(n)))
                                ys == [i \in 1..n |-> <<transform(sy, ycol[i])>>]
                                Xs == reshape(X2)
                            IN  /\ scaler_y' = sy
                                /\ X' = Xs
                                /\ y' = ys
                                /\ IF n_train(n) = 0
                                   THEN /\ pc' = "ValueError"
                                        /\ UNCHANGED <<X_train, X_test, y_train, y_test>>
                                   ELSE /\ X_train' = take(Xs, train_indices(n))
                                        /\ X_test' = take(Xs, test_indices(n))
                                        /\ y_train' = take(ys, train_indices(n))
                                        /\ y_test' = take(ys, test_indices(n))
                                        /\ pc' = "Split"
    /\ UNCHANGED <<all_stations_daily_data, raw_data, Enhanced_csv, data, TrainingVars>>

----------------------------------------------------------------------------
(* Model_Pipeline: the hybrid model, as the shapes of its tensors (the batch *)
(* axis left out)                                                            *)

LSTM(units, shape) == <<units>>

GRU(units, shape) == <<units>>

(* MultiHeadAttention projects back to the last dimension of the query *)
MultiHeadAttention(query, value) == query

Dropout(shape) == shape

LayerNormalization(shape) == shape

Dense(units, shape) == [shape EXCEPT ![Len(shape)] = units]

GlobalAveragePooling1D(shape) == <<shape[Len(shape)]>>

Concatenate(shapes) == <<SumSeq([k \in DOMAIN shapes |-> shapes[k][1]])>>

(* the second feed-forward layer with the width of the first *)
ffn_out_units_ff_dim(inputs, ff_dim) == ff_dim

(* Dense(inputs.shape[-1]): the width of the second feed-forward layer *)
ffn_out_units(inputs, ff_dim) == inputs[Len(inputs)]

(* a + b of two tensors: equal shapes, or broadcast where a dimension is 1; *)
(* <<>> stands for the ValueError of incompatible shapes                    *)
Add(a, b) ==
    IF Len(a) = Len(b) /\ \A k \in DOMAIN a : a[k] = b[k] \/ a[k] = 1 \/ b[k] = 1
    THEN [k \in DOMAIN a |-> Max({a[k], b[k]})]
    ELSE <<>>

(* transformer_encoder(inputs, num_heads=4, key_dim=16, ff_dim=256): the    *)
(* shape of the output and the operands of the two residual additions      *)
transformer_encoder(inputs, ff_dim) ==
    LET attn        == Dropout(MultiHeadAttention(inputs, inputs))
        attn_output == LayerNormalization(Add(attn, inputs))
        ffn_output  == Dropout(Dense(ffn_out_units(inputs, ff_dim),
                                     Dense(ff_dim, attn_output)))
    IN  IF attn_output = <<>>
        THEN [shape |-> <<>>, additions |-> << <<attn, inputs>> >>]
        ELSE [shape     |-> LayerNormalization(Add(ffn_output, attn_output)),
              additions |-> << <<attn, inputs>>, <<ffn_output, attn_output>> >>]

(* define_model(input_shape); outputs = <<>> when building the graph raises *)
define_model(input_shape) ==
    LET inputs      == input_shape
        lstm_out    == LSTM(256, inputs)
        gru_out     == GRU(64, inputs)
        encoder     == transformer_encoder(inputs, 256)
        transformer == GlobalAveragePooling1D(encoder.shape)
        combined    == Concatenate(<<lstm_out, gru_out, transformer>>)
        final       == Dense(1, Dropout(Dense(64, Dropout(Dense(256, combined)))))
    IN  IF encoder.shape = <<>>
        THEN [inputs |-> inputs, lstm_out |-> lstm_out, gru_out |-> gru_out,
              transformer_out |-> <<>>, combined |-> <<>>,
              additions |-> encoder.additions, outputs |-> <<>>]
        ELSE [inputs |-> inputs, lstm_out |-> lstm_out, gru_out |-> gru_out,
              transformer_out |-> transformer, combined |-> combined,
              additions |-> encoder.additions, outputs |-> final]

(* model.predict(A): one output per sample *)
predict(m, A) == <<Len(A)>> \o m.outputs

epochs == 20

batch_size == 16

(* the gradient updates of one epoch: one per batch of the training set *)
steps_per_epoch(n_samples) == (n_samples + batch_size - 1) \div batch_size

(* the validation losses an epoch can report *)
Losses == {NaN, 1, 2}

(* the orders in which an epoch can visit n samples (shuffle=True): as     *)
(* they stand, and reversed                                                 *)
Shuffles(n) == {Idx(n), [k \in 1..n |-> n + 1 - k]}

(* what dropping the remainder would give: full batches only *)
make_batches_drop_remainder(order) ==
    [b \in 1..(Len(order) \div batch_size) |->
        SubSeq(order, (b - 1) * batch_size + 1, b * batch_size)]

(* the mini-batches of one epoch: consecutive runs of batch_size samples of *)
(* the shuffled order, the last one holding the rest                        *)
make_batches(order) ==
    [b \in 1..steps_per_epoch(Len(order)) |->
        SubSeq(order, (b - 1) * batch_size + 1, Min({b * batch_size, Len(order)}))]

(* what an early-stopping callback would do: stop when val_loss is not low *)
fit_continues_early_stopping(h) == h.epoch < epochs /\ h.val_loss # 2

(* model.fit runs every epoch: no callback is passed *)
fit_continues(h) == h.epoch < epochs

(* model = define_model((X_train.shape[1], X_train.shape[2])) and the start *)
(* of model.fit                                                             *)
Define ==
    /\ pc = "Split"
    /\ LET m == define_model(<<Len(X_train[1]), Len(X_train[1][1])>>)
       IN  /\ model' = m
           /\ IF m.outputs = <<>>
              THEN history' = history /\ pc' = "Define_ValueError"
              ELSE /\ history' = [epoch |-> 0, updates |-> 0, samples |-> 0,
                                  weights |-> 0, val_loss |-> NaN,
                                  batches |-> <<>>]
                   /\ pc' = "fit"
    /\ UNCHANGED <<all_stations_daily_data, raw_data, Enhanced_csv, ModelPipelineVars,
                   models_dir, saves, y_pred_train, y_pred_test>>

(* one epoch of model.fit: the samples of X_train in a shuffled order, cut  *)
(* into mini-batches (history.batches, as rows of the table), one update    *)
(* per batch; (X_test, y_test) gives val_loss; the model keeps the weights  *)
(* of the epoch just run (history.weights)                                  *)
Epoch ==
    /\ pc = "fit"
    /\ fit_continues(history)
    /\ \E val_loss \in Losses : \E perm \in Shuffles(Len(X_train)) :
          LET rows    == train_indices(nrows(data))
              batches == make_batches([k \in 1..Len(X_train) |-> rows[perm[k]]])
              h == [epoch    |-> history.epoch + 1,
                    updates  |-> history.updates + Len(batches),
                    samples  |-> history.samples
                                   + SumSeq([b \in DOMAIN batches |-> Len(batches[b])]),
                    weights  |-> history.epoch + 1,
                    val_loss |-> val_loss,
                    batches  |-> batches]
          IN  /\ history' = h
              /\ pc' = IF fit_continues(h) THEN "fit" ELSE "Trained"
    /\ UNCHANGED <<all_stations_daily_data, raw_data, Enhanced_csv, ModelPipelineVars,
                   model, models_dir, saves, y_pred_train, y_pred_test>>

exists(fs) == fs.kind # "absent"

(* os.makedirs(MODEL_DIR) *)
makedirs(fs) ==
    IF exists(fs) THEN [kind |-> "FileExistsError", files |-> {}] ELSE Directory({})

(* creating the directory whatever is there *)
ensure_dir_unguarded(fs) == makedirs(fs)

(* if not os.path.exists(MODEL_DIR): os.makedirs(MODEL_DIR) *)
ensure_dir(fs) == IF ~exists(fs) THEN makedirs(fs) ELSE fs

(* model.save(MODEL_FILE): writes or overwrites the one file *)
save(fs) ==
    IF fs.kind = "dir" THEN Directory(fs.files \cup {MODEL_FILE})
    ELSE IF fs.kind = "file" THEN [kind |-> "NotADirectoryError", files |-> {}]
    ELSE fs

(* the statements of the Save cell *)
persist(fs) == save(ensure_dir(fs))

(* the Save cell, which can be run again after it has succeeded *)
Save ==
    /\ pc = "Trained" \/ (pc = "Saved" /\ saves < MaxSaves)
    /\ saves' = saves + 1
    /\ LET r == persist(models_dir)
       IN  IF r.kind = "dir"
           THEN models_dir' = r /\ pc' = "Saved"
           ELSE models_dir' = models_dir /\ pc' = "Save_Error"
    /\ UNCHANGED <<all_stations_daily_data, raw_data, Enhanced_csv, ModelPipelineVars,
                   model, history, y_pred_train, y_pred_test>>

(* a NaN anywhere in the inputs reaches the predictions, one in the      *)
(* targets reaches the weights or y_true                                  *)
X_has_nan(A) ==
    \E i \in DOMAIN A : \E t \in DOMAIN A[i] : \E j \in DOMAIN A[i][t] :
        isna(A[i][t][j][1])

y_has_nan(A) == \E i \in DOMAIN A : isna(A[i][1][1])

(* the Evaluate cell: predictions for both partitions, then r2_score, MAE, *)
(* RMSE; r2_score raises ValueError on NaN                                  *)
Evaluate ==
    /\ pc = "Saved"
    /\ y_pred_train' = predict(model, X_train)
    /\ y_pred_test' = predict(model, X_test)
    /\ pc' = IF X_has_nan(X_train) \/ y_has_nan(y_train) \/ X_has_nan(X_test) \/ y_has_nan(y_test)
             THEN "Evaluate_ValueError" ELSE "Evaluated"
    /\ UNCHANGED <<all_stations_daily_data, raw_data, Enhanced_csv, ModelPipelineVars,
                   model, history, models_dir, saves>>

Next ==
    \/ Step1 \/ Step2 \/ Step3 \/ Step4 \/ Step5 \/ Step6 \/ Step7 \/ Step8 \/ Step9
    \/ Load \/ Select

Spec == Init /\ [][Next]_vars

----------------------------------------------------------------------------
(* Vocabulary of the properties *)

PM25 == "PM2.5 (ug/m3)"

input == all_stations_daily_data

InputRows == 1..nrows(input)

station_of(i) == input["Station_ID"][i]

SameStation(i, j) == station_of(i) = station_of(j)

(* the rows of row i's station that lie between rows i and j *)
StationRowsBetween(i, j) == {r \in InputRows : SameStation(r, i) /\ i < r /\ r < j}

InputFeatures == CoreSet \cap DOMAIN input

(* which cells have run *)
Interpolated ==
    pc \in {"Step5", "Step6", "Step6_KeyError", "Step7", "Step8", "Step9", "Load",
            "Split", "ValueError", "KeyError"}

RollingComputed == pc \in {"Step6", "Step6_KeyError"}

StageComplete == pc \in {"Step8", "Step9", "Load", "Split", "ValueError", "KeyError"}

Reading(v) == v * 10 ^ RawDecimals           \* the reading v.0

----------------------------------------------------------------------------
(* C1: after the Feature Engineering Stage completes, no cell of the        *)
(* enriched table is missing, in any column, for every input table.         *)
C1_NoMissingCell ==
    StageComplete =>
        \A c \in DOMAIN raw_data : \A i \in 1..nrows(raw_data) : ~isna(raw_data[c][i])

(* C3: within one station, a run of k consecutive missing readings between  *)
(* the known readings a (row lo) and b (row hi) is filled, at its j-th      *)
(* missing row, with a + j*(b-a)/(k+1) rounded to 4 decimals.               *)
C3_InteriorGapInterpolation ==
    Interpolated =>
        \A P \in InputFeatures : \A lo \in InputRows : \A hi \in InputRows :
            LET gap == StationRowsBetween(lo, hi)
                k   == Cardinality(gap)
                a   == input[P][lo]
                b   == input[P][hi]
            IN  (/\ SameStation(lo, hi) /\ lo < hi /\ k >= 1
                 /\ ~isna(a) /\ ~isna(b)
                 /\ \A r \in gap : isna(input[P][r]))
                => \A r \in gap :
                      LET j == Cardinality({q \in gap : q <= r})
                      IN  raw_data[P][r] = round(<<a * (k + 1) + j * (b - a), k + 1>>)

(* a single missing PM2.5 reading between 200.0 and 220.0 has become 210.0 *)
C3_Witness ==
    /\ pc = "Step5"
    /\ \E r \in InputRows :
          /\ r > 1 /\ r < nrows(input)
          /\ SameStation(r - 1, r) /\ SameStation(r, r + 1)
          /\ input[PM25][r - 1] = Reading(200)
          /\ isna(input[PM25][r])
          /\ input[PM25][r + 1] = Reading(220)
          /\ raw_data[PM25][r] = Reading(210)

(* C4: in a station with a known reading, every missing reading before the  *)
(* first known one becomes that first known reading and every missing       *)
(* reading after the last known one becomes that last known reading         *)
(* (rounded to 4 decimals).                                                 *)
C4_BoundaryGapInterpolation ==
    Interpolated =>
        \A P \in InputFeatures : \A r \in InputRows :
            LET known == {q \in InputRows : SameStation(q, r) /\ ~isna(input[P][q])}
            IN  known # {} =>
                  /\ r < Min(known) => raw_data[P][r] = round(<<input[P][Min(known)], 1>>)
                  /\ r > Max(known) => raw_data[P][r] = round(<<input[P][Max(known)], 1>>)

(* a station whose series starts with a missing reading and one whose       *)
(* series ends with one, both with a known reading, have been interpolated  *)
C4_Witness ==
    /\ pc = "Step5"
    /\ \E r \in InputRows : \E q \in InputRows :
          /\ SameStation(r, q) /\ r < q
          /\ isna(input[PM25][r]) /\ ~isna(input[PM25][q])
          /\ \A p \in InputRows : (SameStation(p, r) /\ p < q) => isna(input[PM25][p])
          /\ raw_data[PM25][r] = round(<<input[PM25][q], 1>>)
    /\ \E r \in InputRows : \E q \in InputRows :
          /\ SameStation(r, q) /\ q < r
          /\ isna(input[PM25][r]) /\ ~isna(input[PM25][q])
          /\ \A p \in InputRows : (SameStation(p, r) /\ p > q) => isna(input[PM25][p])
          /\ raw_data[PM25][r] = round(<<input[PM25][q], 1>>)

(* C5: after the Feature Engineering Stage no row of any station has a      *)
(* missing value in a core pollutant of the input, also when the station    *)
(* has no valid sample of it.                                               *)
C5_NoMissingPollutant ==
    StageComplete =>
        \A P \in InputFeatures : \A i \in 1..nrows(raw_data) : ~isna(raw_data[P][i])

(* C6: rolling_mean at the i-th row of a station is the arithmetic mean,    *)
(* rounded to 4 decimals, of the station's interpolated values at rows      *)
(* max(1, i-6)..i; for i <= 7 the mean of rows 1..i, never a 7-wide padded  *)
(* window.  (The mean of a window holding a missing value is missing.)      *)
C6_RollingMeanWindow ==
    RollingComputed =>
        \A P \in InputFeatures : \A r \in InputRows :
            LET i    == Cardinality({q \in InputRows : SameStation(q, r) /\ q <= r})
                win  == {q \in InputRows :
                            /\ SameStation(q, r) /\ q <= r
                            /\ Cardinality(StationRowsBetween(q, r)) < 6}
                n    == Cardinality(win)
                rows == SortedSeq(win)
                sum  == SumSeq([m \in 1..n |-> raw_data[P][rows[m]]])
            IN  /\ n = (IF i <= 7 THEN i ELSE 7)
                /\ raw_data[rolling_mean_col(P)][r] =
                      IF \E q \in win : isna(raw_data[P][q]) THEN NaN
                      ELSE round(<<sum, n>>)

(* a station of more than seven rows has its rolling means: the window has  *)
(* left the station's first row behind, and an earlier row averages fewer   *)
(* than seven values that are not all equal                                 *)
C6_Witness ==
    /\ pc = "Step6"
    /\ \E r \in InputRows :
          /\ Cardinality({q \in InputRows : SameStation(q, r) /\ q <= r}) = 8
          /\ ~isna(raw_data[rolling_mean_col(PM25)][r])
    /\ \E r \in InputRows :
          /\ Cardinality({q \in InputRows : SameStation(q, r) /\ q <= r}) = 3
          /\ raw_data[rolling_mean_col(PM25)][r] # raw_data[PM25][r]
          /\ ~isna(raw_data[rolling_mean_col(PM25)][r])

(* C8: before the backward fill, lag_1 at the i-th row of a station (i > 1) *)
(* is the pollutant value at row i-1 of the same station, and lag_1 at the  *)
(* station's first row is missing.                                          *)
C8_LagCorrectness ==
    RollingComputed =>
        \A P \in InputFeatures : \A r \in InputRows :
            LET before == {q \in InputRows : SameStation(q, r) /\ q < r}
            IN  raw_data[lag_1_col(P)][r] =
                    IF before = {} THEN NaN ELSE raw_data[P][Max(before)]

(* a second station's first row follows a first station's known value, and  *)
(* a later row of a station carries a known lag                             *)
C8_Witness ==
    /\ pc = "Step6"
    /\ \E r \in InputRows :
          /\ r > 1 /\ ~SameStation(r - 1, r)
          /\ ~isna(raw_data[PM25][r - 1])
          /\ isna(raw_data[lag_1_col(PM25)][r])
    /\ \E r \in InputRows :
          /\ r > 1 /\ SameStation(r - 1, r)
          /\ ~isna(raw_data[lag_1_col(PM25)][r])

(* C9: every sample of the training partition is no later than every sample *)
(* of the test partition: timestamp(i) <= timestamp(j).                     *)
C9_ChronologicalSplit ==
    pc = "Split" =>
        LET n == nrows(data)
        IN  /\ X_train = take(X, train_indices(n))
            /\ X_test = take(X, test_indices(n))
            /\ \A k \in DOMAIN train_indices(n) : \A m \in DOMAIN test_indices(n) :
                  data["Timestamp"][train_indices(n)[k]]
                      <= data["Timestamp"][test_indices(n)[m]]

(* C10: for N >= 2 samples the split is made; train is a prefix and test    *)
(* the remaining suffix of the row order, so that train followed by test is *)
(* the original sequence and every sample is in exactly one partition; the  *)
(* test partition holds 20% of N within one sample, the last 2 rows for     *)
(* N = 10.                                                                  *)
C10_SplitPartition ==
    /\ pc = "ValueError" => nrows(data) < 2
    /\ pc = "Split" =>
          LET n == nrows(data)
          IN  /\ n >= 2
              /\ X_train \o X_test = X
              /\ y_train \o y_test = y
              /\ Len(X_train) = Len(y_train) /\ Len(X_test) = Len(y_test)
              /\ Len(X_train) + Len(X_test) = n
              /\ Len(X_train) >= 1
              /\ 5 * Len(X_test) - n < 5 /\ n - 5 * Len(X_test) < 5
              /\ n = 10 => Len(X_test) = 2

(* a 10-row table whose rows carry different feature vectors has been split *)
(* 8 / 2                                                                    *)
C10_Witness ==
    /\ pc = "Split"
    /\ nrows(data) = 10
    /\ Len(X_train) = 8 /\ Len(X_test) = 2
    /\ \A i \in 1..10 : \A j \in 1..10 : i # j => X[i] # X[j]

----------------------------------------------------------------------------
(* Two runs of the stage on inputs that differ in chosen PM2.5 readings *)

(* the whole Feature Engineering Stage (Steps 2 to 8) as a function of its  *)
(* input table                                                              *)
FeatureEngineering(t) ==
    Step8_frame(Step7_frame(Step6_frame(Step5_frame(Step3_frame(Step2_frame(t))))))

(* Steps 5 to 8 work column by column and read, besides the column itself,  *)
(* only Station_ID: the columns of pollutant P that the stage produces,     *)
(* computed from the input's Station_ID and P columns                       *)
Only(t, P) == DataFrame([c \in {"Station_ID", P} |-> t[c]])

PollutantStage(t, P) ==
    Step8_frame(Step7_frame(Step6_frame(Step5_frame(Only(t, P)))))

(* the input with the PM2.5 readings of the rows in DOMAIN f replaced by f *)
Rewritten(f) ==
    [input EXCEPT ![PM25] = [i \in InputRows |-> IF i \in DOMAIN f THEN f[i] ELSE @[i]]]

(* replacement readings for a set of rows: every assignment of Readings     *)
(* when the rows are no more than the readings, else one reading for one    *)
(* row or for all rows from some row on                                     *)
Rewrites(rows) ==
    IF Cardinality(rows) <= Cardinality(Readings) THEN [rows -> Readings]
    ELSE UNION {{[q \in {r} |-> v], [q \in {p \in rows : p >= r} |-> v]} :
                    r \in rows, v \in Readings}

StationRows(S) == {i \in InputRows : station_of(i) = S}

InputStations == {station_of(i) : i \in InputRows}

(* the columns of a pollutant computed by PollutantStage are those of the   *)
(* run on the whole table                                                   *)
ProjectionAgrees ==
    pc = "Step8" =>
        /\ FeatureEngineering(input) = raw_data
        /\ \A c \in {PM25, rolling_mean_col(PM25), lag_1_col(PM25)} :
              PollutantStage(input, PM25)[c] = raw_data[c]

(* C2: for two inputs identical on the rows of station S1 that differ only  *)
(* in the readings of another station S2, every interpolated value,         *)
(* rolling_mean and lag_1 of every S1 row of the final enriched table is    *)
(* the same.                                                                *)
C2_NoCrossStationLeakage ==
    (pc = "Step8" /\ Cardinality(InputStations) > 1) =>
        \A S2 \in InputStations :
            \A f \in Rewrites(StationRows(S2)) :
                LET other == PollutantStage(Rewritten(f), PM25)
                IN  \A i \in InputRows :
                        station_of(i) # S2 =>
                            \A c \in {PM25, rolling_mean_col(PM25), lag_1_col(PM25)} :
                                other[c][i] = raw_data[c][i]

(* rewrite f leaves every reading up to and including row i as it was *)
AgreeUpTo(f, i) == \A q \in DOMAIN f : q <= i => f[q] = input[PM25][q]

(* C7 as claimed: for two raw inputs that agree on every row up to and      *)
(* including position i of a station and differ only in readings after i,   *)
(* the rolling_mean the stage produces at position i is the same.           *)
C7_NoFutureSamples ==
    pc = "Step8" =>
        \A S \in InputStations :
            \A f \in Rewrites(StationRows(S)) :
                LET other == PollutantStage(Rewritten(f), PM25)
                IN  \A i \in StationRows(S) :
                        AgreeUpTo(f, i) =>
                            other[rolling_mean_col(PM25)][i]
                                = raw_data[rolling_mean_col(PM25)][i]

(* C7 as amended: the same, for a position i whose own reading is present   *)
(* (a missing reading at i is interpolated from the next known reading, and *)
(* so from the future).                                                     *)
C7_NoFutureSamplesKnownRow ==
    pc = "Step8" =>
        \A S \in InputStations :
            \A f \in Rewrites(StationRows(S)) :
                LET other == PollutantStage(Rewritten(f), PM25)
                IN  \A i \in StationRows(S) :
                        (AgreeUpTo(f, i) /\ ~isna(input[PM25][i])) =>
                            other[rolling_mean_col(PM25)][i]
                                = raw_data[rolling_mean_col(PM25)][i]

(* the stage has run on a station where a known reading at some row is      *)
(* followed by a later known reading and preceded by a missing one, and the *)
(* rolling mean of that row averages more than the row itself               *)
C7_Witness ==
    /\ pc = "Step8"
    /\ \E i \in InputRows :
          /\ ~isna(input[PM25][i])
          /\ \E q \in InputRows : SameStation(q, i) /\ q > i /\ ~isna(input[PM25][q])
          /\ \E q \in InputRows : SameStation(q, i) /\ q < i /\ isna(input[PM25][q])
          /\ raw_data[rolling_mean_col(PM25)][i] # raw_data[PM25][i]

----------------------------------------------------------------------------
(* Model_Pipeline run on its own, on an enriched file written earlier *)

(* the file Data_handling writes for a table *)
Enriched(t) == Step9_frame(FeatureEngineering(t))

(* the file with one column left out *)
Without(file, c) == DataFrame([d \in DOMAIN file \ {c} |-> file[d]])

ModelColumns == {features[j] : j \in DOMAIN features} \cup {target}

(* one station, BatchRows days, every reading known *)
BatchTable ==
    Table([i \in 1..BatchRows |-> 1], [i \in 1..BatchRows |-> Odd(i)], OtherCore, FALSE)

(* the tables whose enriched files the notebook is run on: the one-station  *)
(* tables with every column and reading, the longest uneven tables of one   *)
(* or two stations with no gap or a gap in the first row, and BatchTable    *)
ModelTables ==
    {t \in PartialTables : CoreSet \subseteq DOMAIN t /\ ~isna(t["NH3 (ug/m3)"][1])}
        \cup {t \in LongTables :
                 /\ nrows(t) = MaxLongRows
                 /\ \A i \in 2..nrows(t) : t[PM25][i] = Odd(i)}
        \cup {BatchTable}

EnrichedFiles ==
    {Enriched(t) : t \in ModelTables}
        \cup {Without(Enriched(t), c) :
                t \in {u \in PartialTables :
                          CoreSet \subseteq DOMAIN u /\ nrows(u) = MaxLongRows},
                c \in ModelColumns}

InitModel ==
    /\ all_stations_daily_data = NoFrame
    /\ raw_data = NoFrame
    /\ Enhanced_csv \in EnrichedFiles
    /\ ModelPipelineFresh
    /\ models_dir \in DirStates
    /\ pc = "Imports"

NextModel == Load \/ Select \/ Define \/ Epoch \/ Save \/ Evaluate

SpecModel == InitModel /\ [][NextModel]_vars

(* model.fit is a loop that runs every epoch to its end *)
FairSpecModel == SpecModel /\ WF_vars(Epoch)

----------------------------------------------------------------------------
(* Properties of the Dataset Builder *)

Built == pc \in {"Split", "fit", "Trained", "Saved", "Save_Error", "Evaluated",
                 "Evaluate_ValueError"}

(* a scaled value <<p, q>> inside [0, 1] *)
InUnitInterval(fr) == 0 <= fr[1] /\ fr[1] <= fr[2]

(* column j of the scaled arrays, against the column of the table it scales *)
ScaledOntoUnitInterval(col, scaled) ==
    LET known == {col[i] : i \in DOMAIN col} \ {NaN}
    IN  /\ \A i \in DOMAIN col : InUnitInterval(scaled[i])
        /\ \A i \in DOMAIN col :
              (Min(known) # Max(known)) =>
                  /\ (col[i] = Min(known)) => scaled[i] = <<0, 1>>
                  /\ (col[i] = Max(known)) => scaled[i] = <<1, 1>>

(* C11: once the partitions exist, every scaled feature and target value of *)
(* the training and the test partition lies in [0,1], and in each column    *)
(* the smallest value of the table is scaled to 0 and the largest to 1 when *)
(* the two differ.                                                          *)
C11_ScaledRange ==
    (pc = "Split") =>
        LET n  == nrows(data)
            Xp == X_train \o X_test
            yp == y_train \o y_test
        IN  /\ \A j \in DOMAIN features :
                  ScaledOntoUnitInterval(data[features[j]],
                                         [i \in 1..n |-> Xp[i][1][j]])
            /\ ScaledOntoUnitInterval(data[target], [i \in 1..n |-> yp[i][1]])

(* the same, for tables the stage left without a missing cell *)
C11_ScaledRangeOfKnownData ==
    (pc = "Split" /\ \A c \in ModelColumns : \A i \in 1..nrows(data) : ~isna(data[c][i]))
        => C11_ScaledRange

(* the values the round trip is tried on: the target values of the table    *)
(* and the middle of the fitted range                                       *)
RoundTripValues ==
    ({data[target][i] : i \in 1..nrows(data)} \ {NaN})
        \cup {(scaler_y.data_min + scaler_y.data_max) \div 2}

(* fraction fr is the number v *)
Equals(fr, v) == fr[1] = v * fr[2]

C12_WitnessConstantColumn ==
    /\ pc = "Split"
    /\ ~isna(scaler_y.data_min)
    /\ scaler_y.data_min = scaler_y.data_max
    /\ scaler_y.data_min > 0
    /\ \A i \in 1..nrows(data) :
          Equals(inverse_transform(scaler_y, y[i][1]), data[target][i])

(* the scalers hold the parameters of the full table and both partitions   *)
(* are the table's rows scaled by them                                      *)
ScalersOfFullTable ==
    LET n == nrows(data)
        k == Len(X_train)
    IN  /\ scaler_y = fit(data[target])
        /\ \A j \in DOMAIN features : scaler_X[j] = fit(data[features[j]])
        /\ Len(X_train) + Len(X_test) = n
        /\ \A i \in 1..n :
              LET Xi == IF i <= k THEN X_train[i] ELSE X_test[i - k]
                  yi == IF i <= k THEN y_train[i] ELSE y_test[i - k]
              IN  /\ yi[1] = transform(scaler_y, data[target][i])
                  /\ \A j \in DOMAIN features :
                        Xi[1][j] = transform(scaler_X[j], data[features[j]][i])

(* C13: from the split on, the scalers hold the parameters fit on the full  *)
(* table and those parameters scaled both partitions; the scalers change   *)
(* in one step only, the builder's, which runs before the split and once.   *)
C13_ScalersFitOnce ==
    /\ [](Built => ScalersOfFullTable)
    /\ [][(scaler_X' # scaler_X \/ scaler_y' # scaler_y)
            => (pc = "Load" /\ scaler_X = <<>> /\ scaler_y = <<>>)]_vars

(* evaluation is over; the largest target value sits in the test partition *)
C13_Witness ==
    /\ pc = "Evaluated"
    /\ ScalersOfFullTable
    /\ \E i \in DOMAIN y_test : y_test[i][1] = <<1, 1>>
    /\ \A i \in DOMAIN y_train : y_train[i][1] # <<1, 1>>

----------------------------------------------------------------------------
(* Properties of the stage's error handling *)

(* C14: when a core pollutant column is absent from the input, no step of  *)
(* the stage raises, and the enriched file, once written, has the rolling  *)
(* mean and lag columns of every pollutant that is present.                 *)
C14_AbsentColumnNonFatal ==
    (pc # "start" /\ ~(CoreSet \subseteq DOMAIN input)) =>
        /\ pc # "Step6_KeyError"
        /\ (pc = "Step9") =>
              \A f \in InputFeatures :
                  {rolling_mean_col(f), lag_1_col(f)} \subseteq DOMAIN Enhanced_csv

ColumnAbsent == pc \notin {"Imports", "Load"} /\ ~(ModelColumns \subseteq DOMAIN data)

NoPartition == X_train = <<>> /\ X_test = <<>> /\ y_train = <<>> /\ y_test = <<>>

(* C15 as stated: when a feature column or the target column is absent     *)
(* from the enriched table, the builder has failed with KeyError and has    *)
(* produced no scaled array and no partition.                               *)
C15_FailsBeforeScaling ==
    ColumnAbsent => (pc = "KeyError" /\ X = <<>> /\ y = <<>> /\ NoPartition)

(* C15, amended: when a feature column or the target column is absent, the *)
(* builder has failed with KeyError and has produced no scaled target, no  *)
(* 3-dimensional tensor and no partition; when a feature column is absent  *)
(* it has produced nothing at all, and when only the target is absent it   *)
(* leaves the 2-dimensional scaled feature matrix of the columns that      *)
(* exist; no value stands in for an absent column.                          *)
C15_FailsBeforeTensor ==
    ColumnAbsent =>
        /\ pc = "KeyError"
        /\ y = <<>> /\ scaler_y = <<>>
        /\ NoPartition
        /\ IF \E j \in DOMAIN features : features[j] \notin DOMAIN data
           THEN X = <<>> /\ scaler_X = <<>>
           ELSE /\ target \notin DOMAIN data
                /\ Len(X) = nrows(data)
                /\ \A i \in DOMAIN X : \A j \in DOMAIN features :
                      X[i][j] = transform(scaler_X[j], data[features[j]][i])

(* the builder has failed on a table without the target column *)
C15_Witness ==
    /\ pc = "KeyError"
    /\ target \notin DOMAIN data
    /\ X # <<>>
    /\ y = <<>>

CalendarFields == {"Year", "Month", "Day", "DayOfWeek"}

Unparseable(i) == isna(to_datetime(input["Timestamp"][i]))

(* C16: date parsing does not raise; a row whose date string cannot be     *)
(* parsed has a missing timestamp after Step 2 and missing calendar fields *)
(* after Step 3, and once the stage's fills are done none of its calendar  *)
(* fields is missing, whichever row of the table it is.                     *)
C16_UnparseableDateFilled ==
    \A i \in InputRows :
        Unparseable(i) =>
            /\ (pc = "Step2") => isna(raw_data["Timestamp"][i])
            /\ (pc = "Step3") => \A c \in CalendarFields : isna(raw_data[c][i])
            /\ StageComplete =>
                  \A c \in CalendarFields :
                      ~isna((IF pc = "Step8" THEN raw_data
                             ELSE IF pc = "Step9" THEN Enhanced_csv ELSE data)[c][i])

(* the same for the rows that have an earlier row in the table *)
C16_FilledAfterFirstRow ==
    \A i \in InputRows :
        (Unparseable(i) /\ i > 1 /\ pc = "Step8") =>
            \A c \in CalendarFields :
                /\ ~isna(raw_data[c][i])
                /\ raw_data[c][i] = raw_data[c][i - 1]

----------------------------------------------------------------------------
(* Properties of the model, of training and of persistence *)

Predicted == pc \in {"Evaluated", "Evaluate_ValueError"}

(* the shape (N, 1, F) of a batch *)
shape(A) == <<Len(A), Len(A[1]), Len(A[1][1])>>

(* C17: the model defined for the partitions takes samples of shape (1, 14), *)
(* has an LSTM branch of width 256, a GRU branch of width 64 and an         *)
(* attention branch pooled to width 14, concatenated to 334 and reduced to  *)
(* one output; both residual additions add tensors of equal shape and       *)
(* defining the model does not raise; for a batch of shape (N, 1, 14) the   *)
(* predictions have shape (N, 1).                                           *)
C17_OutputShape ==
    /\ pc # "Define_ValueError"
    /\ (model # <<>>) =>
          /\ model.inputs = <<1, 14>>
          /\ model.lstm_out = <<256>>
          /\ model.gru_out = <<64>>
          /\ model.transformer_out = <<14>>
          /\ model.combined = <<334>>
          /\ model.outputs = <<1>>
          /\ Len(model.additions) = 2
          /\ \A k \in DOMAIN model.additions :
                model.additions[k][1] = model.additions[k][2]
    /\ Predicted =>
          /\ shape(X_train) = <<Len(X_train), 1, 14>>
          /\ shape(X_test) = <<Len(X_test), 1, 14>>
          /\ y_pred_train = <<Len(X_train), 1>>
          /\ y_pred_test = <<Len(X_test), 1>>

C17_Witness ==
    /\ pc = "Evaluated"
    /\ Len(X_train) > 2 /\ Len(X_test) > 1
    /\ y_pred_train = <<Len(X_train), 1>>
    /\ y_pred_test = <<Len(X_test), 1>>
    /\ model.additions[2] = << <<1, 14>>, <<1, 14>> >>

(* C18: training ends, after exactly 20 epochs over the training partition *)
(* and whatever val_loss the epochs report: it does not end before epoch   *)
(* 20, every epoch passes over the training samples only, and the model    *)
(* keeps the weights of epoch 20.                                           *)
C18_TwentyEpochs ==
    /\ [](pc = "fit" => history.epoch < epochs)
    /\ [](pc \in {"Trained", "Saved", "Save_Error", "Evaluated", "Evaluate_ValueError"} =>
             /\ history.epoch = 20
             /\ history.weights = 20
             /\ history.samples = 20 * Len(X_train)
             /\ history.updates = 20 * ((Len(X_train) + 15) \div 16))
    /\ [][pc = "fit" => /\ history'.epoch = history.epoch + 1
                        /\ history'.samples = history.samples + Len(X_train)]_vars
    /\ ((pc = "fit") ~> (pc = "Trained"))

(* trained to the end although the last epochs reported the worst val_loss *)
C18_Witness ==
    /\ pc = "Trained"
    /\ history.epoch = 20
    /\ history.val_loss = 2

(* C19: after the Save cell the destination is a directory holding the     *)
(* artifact under its fixed name, whether the directory was absent or      *)
(* present before; the cell fails only when the path is a regular file;    *)
(* running the cell again leaves the directory as the first run left it.   *)
C19_PersistIdempotent ==
    /\ [](pc \in {"Saved", "Evaluated", "Evaluate_ValueError"} =>
             /\ models_dir.kind = "dir"
             /\ MODEL_FILE \in models_dir.files
             /\ persist(models_dir) = models_dir)
    /\ [](pc = "Save_Error" => models_dir.kind = "file")
    /\ [][(pc = "Saved" /\ saves' = saves + 1) =>
             (pc' = "Saved" /\ models_dir' = models_dir)]_vars
    /\ [][(pc = "Trained" /\ saves' = saves + 1 /\ models_dir.kind # "file") =>
             (pc' = "Saved" /\ models_dir' = persist(models_dir)
                 /\ models_dir'.files = models_dir.files \cup {MODEL_FILE})]_vars

(* the cell has run twice, the first time without a directory *)
C19_Witness ==
    /\ pc = "Saved"
    /\ saves = 2
    /\ models_dir = Directory({MODEL_FILE})

----------------------------------------------------------------------------
(* Data_handling on tables whose stations come in any order *)

(* every Station_ID column, with an uneven PM2.5 series that has at most   *)
(* one missing reading; the dates of a station ascend in row order          *)
AnyOrderTables ==
    UNION {{Table(st, [i \in 1..n |-> IF i = g THEN NaN ELSE Odd(i)], OtherCore, FALSE) :
                st \in [1..n -> Stations], g \in 0..n} :
           n \in 1..(MaxRows - 1)}

InitAnyOrder ==
    /\ all_stations_daily_data \in AnyOrderTables
    /\ raw_data = NoFrame
    /\ Enhanced_csv = NoFrame
    /\ ModelPipelineFresh
    /\ models_dir = Absent
    /\ pc = "start"

SpecAnyOrder == InitAnyOrder /\ [][Next]_vars

(* what interpolating row i's own station gives for row i *)
OwnStationInterpolation(f, i) ==
    round(interpolate(group_series(input, f, station_of(i)))[pos_in_group(input, i)])

(* C20: after the interpolation step, whatever the order of the stations'  *)
(* rows, every pollutant value present in the input is unchanged up to     *)
(* rounding and every filled value is the one computed for its row from    *)
(* the readings of its own station.                                         *)
C20_InterpolationRowAligned ==
    (pc = "Step5") =>
        \A f \in InputFeatures : \A i \in InputRows :
            /\ ~isna(input[f][i]) => raw_data[f][i] = round(<<input[f][i], 1>>)
            /\ raw_data[f][i] = OwnStationInterpolation(f, i)

----------------------------------------------------------------------------
(* The feature vector of a row against the row's own target *)

(* the known readings that can replace the known PM2.5 reading of row i *)
OtherReadings(i) == Readings \ {NaN, input[PM25][i]}

(* the features of the model that are derived from PM2.5; the other twelve  *)
(* are computed from other columns (ProjectionAgrees)                       *)
TargetDerivedFeatures ==
    {features[j] : j \in DOMAIN features} \cap {rolling_mean_col(PM25), lag_1_col(PM25)}

(* C21: for every row, replacing only that row's known PM2.5 reading by     *)
(* another known reading leaves the row's feature values in the enriched    *)
(* table (PM2.5's rolling_mean and lag_1 after the fills among them) as     *)
(* they were.                                                               *)
C21_LeakageFreeFeatures ==
    pc = "Step8" =>
        \A i \in InputRows :
            ~isna(input[PM25][i]) =>
                \A v \in OtherReadings(i) :
                    LET other == PollutantStage(Rewritten([q \in {i} |-> v]), PM25)
                    IN  \A c \in TargetDerivedFeatures : other[c][i] = raw_data[c][i]

----------------------------------------------------------------------------
(* The backward fill of the lag column at the head of a station *)

FirstRowOf(S) == Min(StationRows(S))

(* C22: after the backward fill of Step 7, lag_1 at the first row of every  *)
(* station whose first value is known is that station's own first value,    *)
(* for a station of a single row and for the last station of the table too. *)
C22_BackfillWithinStation ==
    pc = "Step7" =>
        \A S \in InputStations : \A P \in InputFeatures :
            LET r == FirstRowOf(S)
            IN  ~isna(raw_data[P][r]) => raw_data[lag_1_col(P)][r] = raw_data[P][r]

(* the same for the stations that have a second row *)
C22_BackfillOfLongerStation ==
    pc = "Step7" =>
        \A S \in InputStations : \A P \in InputFeatures :
            LET r == FirstRowOf(S)
            IN  (~isna(raw_data[P][r]) /\ Cardinality(StationRows(S)) > 1)
                    => raw_data[lag_1_col(P)][r] = raw_data[P][r]

----------------------------------------------------------------------------
(* The mini-batches of an epoch *)

EpochRun == model # <<>> /\ history # <<>> /\ history.epoch >= 1

(* the rows of the table that batch b holds *)
BatchSet(b) == {history.batches[b][k] : k \in DOMAIN history.batches[b]}

(* C23: in every epoch, 1 to 20, each training sample is in exactly one     *)
(* mini-batch, every mini-batch but the last holds 16 samples and the last  *)
(* at most 16, there are ceil(N_train / 16) mini-batches, and no row of the *)
(* test partition is in one.                                                *)
C23_MiniBatches ==
    EpochRun =>
        LET n       == nrows(data)
            N_train == Len(X_train)
            B       == Len(history.batches)
        IN  /\ history.epoch \in 1..20
            /\ B = (N_train + 15) \div 16
            /\ \A r \in 1..N_train :
                  Cardinality({bk \in (1..B) \X (1..16) :
                                  /\ bk[2] <= Len(history.batches[bk[1]])
                                  /\ history.batches[bk[1]][bk[2]] = r}) = 1
            /\ \A b \in 1..B :
                  /\ Len(history.batches[b]) = IF b < B THEN 16 ELSE N_train - 16 * (B - 1)
                  /\ Len(history.batches[b]) \in 1..16
                  /\ BatchSet(b) \subseteq 1..N_train
                  /\ \A r \in BatchSet(b) : \A q \in DOMAIN X_test :
                        r # test_indices(n)[q]

(* the last epoch of a training partition of more than 16 rows, visited in *)
(* an order other than the table's                                          *)
C23_Witness ==
    /\ pc = "Trained"
    /\ history.epoch = 20
    /\ Len(X_train) > 16
    /\ Len(history.batches) = 2
    /\ Len(history.batches[1]) = 16
    /\ Len(history.batches[2]) = Len(X_train) - 16
    /\ history.batches[1][1] # 1

====
